---- MODULE Spec2Model ----
(***************************************************************************)
(* Refund bot (Kava / Binance Chain BEP3 swaps).                           *)
(*                                                                         *)
(* The model follows the RefundBot class that scripts/start.js drives      *)
(* (the class listed in README.md, lines 58-367) and the cron wiring of    *)
(* scripts/start.js.  Every invocation of refundSwaps() is an async call   *)
(* chain: it runs synchronously up to its next await, so one action of     *)
(* the model is "the awaited call returns (or throws) and the code runs    *)
(* on to the next await".  The locals of one invocation are one record.    *)
(***************************************************************************)
EXTENDS Integers, Sequences, FiniteSets, TLC

\* ------------------------------------------------------------------ bounds
Limit == 2            \* page size (the constructor's default is 100)
MaxKavaSwaps == 5     \* longest expired-swap listing on Kava
MaxBnbSwaps == 2      \* longest listing per deputy and direction on Binance Chain
MaxFailures == 1      \* failing calls explored per behaviour
MaxRepeatLoad == 2    \* a second cron firing is explored for listings up to this size

Cycles == {1, 2}      \* the cron firings explored: the first one and one more
Fail == -1            \* result of a call that threw

Min(a, b) == IF a < b THEN a ELSE b

\* ------------------------------------------------------------- variables
VARIABLES
  bot,          \* the RefundBot object: deputyAddresses, limit, offsetIncoming, offsetOutgoing
  kavaCount,    \* number of Expired swaps the Kava endpoint lists
  bnbCount,     \* [deputy -> number of swaps the Binance endpoint lists for it, per direction]
  inv           \* [cycle -> locals of that refundSwaps() invocation]

vars == <<bot, kavaCount, bnbCount, inv>>

DeputyAddresses == <<1, 2>>
DefaultOffset == 0       \* the constructor's default for offsetIncoming and offsetOutgoing
DefaultLimit == 100      \* the constructor's default for limit
LatestBlockHeight == 2   \* latest_block_height reported by /api/v1/node-info
AccountSequences == {<<9>>}   \* accountData.sequence, a decimal string

\* ---------------------------------------------------- JS number <-> string
RECURSIVE Number(_)
\* Number("d1 d2 .. dn") for a string of decimal digits
Number(s) == IF Len(s) = 0 THEN 0
             ELSE 10 * Number(SubSeq(s, 1, Len(s) - 1)) + s[Len(s)]

RECURSIVE String(_)
\* String(n) for a non-negative integer: its decimal digits
String(n) == IF n < 10 THEN <<n>> ELSE Append(String(n \div 10), n % 10)

\* ------------------------------------------------------ chain A (Kava) API
\* the k-th record of the Expired listing (the payload carries no swap ID)
KavaRecord(k) ==
  [random_number_hash |-> k, sender |-> 1 + (k % 2), sender_other_chain |-> 3]

KavaListing == [k \in 1..kavaCount |-> KavaRecord(k)]

\* kavaClient.getSwaps({status: 3, pagination.offset, pagination.limit})
getSwaps(offset, limit) ==
  SubSeq(KavaListing, offset + 1, Min(offset + limit, kavaCount))

\* Kava.utils.calculateSwapID: a hash of the three fields, injective on them
calculateSwapID(random_number_hash, sender, sender_other_chain) ==
  100 * random_number_hash + 10 * sender + sender_other_chain

\* ------------------------------------------------- chain B (Binance) API
DirNo(incoming) == IF incoming THEN 1 ELSE 2

\* the k-th swap listed for a deputy in a direction
BnbRecord(d, incoming, k) ==
  [swapId |-> 1000 * d + 100 * DirNo(incoming) + k,
   status |-> IF (d + k + DirNo(incoming)) % 3 = 0 THEN 2 ELSE 1,
   expireHeight |-> 1 + ((d + k) % 3)]

BnbListing(d, incoming) ==
  [k \in 1..bnbCount[d] |-> BnbRecord(d, incoming, k)]

\* bnbClient.getSwapByCreator / getSwapByRecipient (deputy, limit, offset)
getSwapBy(d, incoming, limit, offset) ==
  SubSeq(BnbListing(d, incoming), offset + 1,
         Min(offset + limit, bnbCount[d]))

\* --------------------------------------------------------------- tracing
\* one entry per awaited call of an invocation, appended when it returns
Ev(op, dir, dep, off, id, seq, res) ==
  [op |-> op, dir |-> dir, dep |-> dep, off |-> off, id |-> id, seq |-> seq, res |-> res]

Log(r, e) == [r EXCEPT !.trace = Append(@, e)]

Dir(incoming) == IF incoming THEN "in" ELSE "out"

IsFailure(e) == e.res = Fail \/ (e.op = "refundHTLT" /\ e.res # 200)

NumFailures(r) == Cardinality({k \in DOMAIN r.trace : IsFailure(r.trace[k])})

\* one more call may fail (the calls of all invocations count)
CanFail(r) == NumFailures(inv[1]) + NumFailures(inv[2]) < MaxFailures

\* ------------------------------------------------------------ constructor
\* new RefundBot(deputyAddresses, limit = 100, offsetIncoming = 0, offsetOutgoing = 0)
\* mutant: the length of deputyAddresses is not checked
RefundBotUnchecked(deputyAddresses, limit, offsetIncoming, offsetOutgoing) ==
  [deputyAddresses |-> deputyAddresses, limit |-> limit,
   offsetIncoming |-> offsetIncoming, offsetOutgoing |-> offsetOutgoing]

\* when the constructor throws there is no object, only the Error
RefundBot(deputyAddresses, limit, offsetIncoming, offsetOutgoing) ==
  IF Len(deputyAddresses) = 0
    THEN [error |-> "must specify at least one Binance Chain deputy address"]
    ELSE [deputyAddresses |-> deputyAddresses, limit |-> limit,
          offsetIncoming |-> offsetIncoming, offsetOutgoing |-> offsetOutgoing]

\* the value is a constructed RefundBot (not a thrown Error, not the unset variable)
IsBot(b) == "deputyAddresses" \in DOMAIN b

\* the k-th positional argument of a call, or the default of the parameter
Arg(args, k, default) == IF Len(args) >= k THEN args[k] ELSE default

\* new RefundBot(...args) with the default parameters filled in
New(args) ==
  RefundBot(args[1], Arg(args, 2, DefaultLimit), Arg(args, 3, DefaultOffset),
            Arg(args, 4, DefaultOffset))

\* locals of an invocation that has not been started
Idle ==
  [pc |-> "idle",
   offset |-> 0, expiredSwaps |-> <<>>, kavaSwapIDs |-> <<>>,
   accountData |-> <<>>, i |-> 0, index |-> 0,
   incoming |-> TRUE, deputy |-> 0, offsetIncoming |-> 0, offsetOutgoing |-> 0,
   latestBnbBlockHeight |-> 0, openSwaps |-> <<>>, incomingSwaps |-> <<>>,
   bnbSwapIDs |-> <<>>,
   trace |-> <<>>]

Init ==
  /\ bot = RefundBot(DeputyAddresses, Limit, DefaultOffset, DefaultOffset)
  /\ kavaCount \in 0..MaxKavaSwaps
  /\ bnbCount \in [1..Len(DeputyAddresses) -> 0..MaxBnbSwaps]
  /\ inv = [c \in Cycles |-> Idle]

\* ------------------------------------------------ getRefundableBinanceSwaps
\* entry of getRefundableBinanceSwaps(incoming): locals set, node-info requested
StartBnbScan(r, incoming) ==
  [r EXCEPT !.incoming = incoming, !.openSwaps = <<>>,
            !.offsetIncoming = bot.offsetIncoming,
            !.offsetOutgoing = bot.offsetOutgoing,
            !.deputy = 0, !.pc = "nodeInfo"]

\* mutant: the outgoing scan is the first and only scan
refundBinanceChainSwapsOutgoingOnly(r) == StartBnbScan(r, FALSE)

\* refundBinanceChainSwaps(): starts with the incoming scan
refundBinanceChainSwaps(r) == StartBnbScan(r, TRUE)

\* the refund loop of refundBinanceChainSwaps over swapIDs
StartBnbRefunds(r, swapIDs) ==
  [r EXCEPT !.bnbSwapIDs = swapIDs, !.index = 0,
            !.pc = IF Len(swapIDs) > 0 THEN "refundHTLT" ELSE "done"]

\* return openSwaps.map(swap => swap.swapId), back in refundBinanceChainSwaps
FinishBnbScan(r) ==
  LET ids == [k \in 1..Len(r.openSwaps) |-> r.openSwaps[k].swapId]
  IN IF r.incoming
       THEN StartBnbScan([r EXCEPT !.incomingSwaps = ids], FALSE)
       ELSE StartBnbRefunds(r, r.incomingSwaps \o ids)

\* asyncForEach over deputyAddresses: the callback for one deputy returned
NextDeputy(r) ==
  IF r.deputy < Len(bot.deputyAddresses)
    THEN [r EXCEPT !.deputy = @ + 1, !.pc = "getSwapBy"]
    ELSE FinishBnbScan(r)

\* mutant: a swap that expires at the height just read is not yet refundable
RefundableStrict(swap, latestBnbBlockHeight) ==
  swap.status = 1 /\ swap.expireHeight < latestBnbBlockHeight

\* the refundable filter of a batch
Refundable(swap, latestBnbBlockHeight) ==
  swap.status = 1 /\ swap.expireHeight <= latestBnbBlockHeight

\* mutant: the comparison is strict
AdvanceOffsetStrict(n, limit) == n < limit

\* "If it's a full batch, increment offset by limit for next iteration"
AdvanceOffset(n, limit) == n <= limit

\* the body of the while loop after a page came back
BnbBatch(r, swapBatch) ==
  IF Len(swapBatch) > 0
    THEN LET refundableSwapsInBatch ==
               SelectSeq(swapBatch, LAMBDA s : Refundable(s, r.latestBnbBlockHeight))
             adv == AdvanceOffset(Len(swapBatch), bot.limit)
         IN [r EXCEPT !.openSwaps = @ \o refundableSwapsInBatch,
                      !.offsetIncoming =
                         IF adv /\ r.incoming THEN @ + bot.limit ELSE @,
                      !.offsetOutgoing =
                         IF adv /\ ~r.incoming THEN @ + bot.limit ELSE @]
    ELSE NextDeputy([r EXCEPT !.offsetIncoming = bot.offsetIncoming,
                              !.offsetOutgoing = bot.offsetOutgoing])

\* the working offset of the direction being scanned
BnbOffset(r) == IF r.incoming THEN r.offsetIncoming ELSE r.offsetOutgoing

\* ---------------------------------------------------------- refundKavaSwaps
\* mutant: the sequence moves on only past the submissions that succeeded
KavaSequenceOfSuccesses(r) ==
  String(Number(r.accountData)
         + Cardinality({k \in DOMAIN r.trace :
                          r.trace[k].op = "refundSwap" /\ r.trace[k].res # Fail}))

\* String(Number(accountData.sequence) + i)
KavaSequence(r) == String(Number(r.accountData) + r.i)

\* the refund loop of refundKavaSwaps over swapIDs, or on to chain B
StartKavaRefunds(r) ==
  IF Len(r.kavaSwapIDs) > 0
    THEN [r EXCEPT !.i = 0, !.index = 0, !.pc = "refundSwap"]
    ELSE refundBinanceChainSwaps(r)

\* refundKavaSwaps after getRefundableKavaSwaps returned: loadMetaData requested
AfterKavaScan(r, swapIDs) ==
  [r EXCEPT !.kavaSwapIDs = swapIDs, !.pc = "loadMetaData"]

\* the swap IDs of the collected records
KavaSwapIDs(expiredSwaps) ==
  [k \in 1..Len(expiredSwaps) |->
     calculateSwapID(expiredSwaps[k].random_number_hash,
                     expiredSwaps[k].sender,
                     expiredSwaps[k].sender_other_chain)]

\* mutant: the offset is stepped like a page number
NextKavaOffsetByOne(offset, limit) == offset + 1

\* offset += this.limit
NextKavaOffset(offset, limit) == offset + limit

\* "If swaps in batch, save them and increment page count"
KavaBatch(r, swapBatch, deriveOk) ==
  IF Len(swapBatch) > 0
    THEN [r EXCEPT !.expiredSwaps = @ \o swapBatch,
                   !.offset = NextKavaOffset(@, bot.limit)]
    ELSE IF deriveOk
           THEN AfterKavaScan(r, KavaSwapIDs(r.expiredSwaps))
           ELSE [Log(r, Ev("calculateSwapID", "A", 0, 0, 0, <<>>, Fail))
                   EXCEPT !.pc = "rejected"]

\* mutant: a failed page request ends the loop and the collected swaps are returned
KavaScanFailedKeeps(r) == AfterKavaScan(r, KavaSwapIDs(r.expiredSwaps))

\* the catch of the page request in getRefundableKavaSwaps: return []
KavaScanFailed(r) == AfterKavaScan(r, <<>>)

\* mutant: no try/catch around loadMetaData, a throw ends the invocation
MetaDataFailedUncaught(r) == [r EXCEPT !.pc = "rejected"]

\* the catch of loadMetaData in refundKavaSwaps: console.log(e); return; and
\* refundSwaps goes on with chain B
MetaDataFailed(r) == refundBinanceChainSwaps(r)

\* mutant: the catch of a failed refundSwap goes on to the next swap ID at once,
\* without the pacing delay
AfterKavaRefundNoSleepOnFailure(r, ok) ==
  LET r1 == Log(r, Ev("refundSwap", "A", 0, 0, r.kavaSwapIDs[r.index + 1],
                      KavaSequence(r), IF ok THEN 200 ELSE Fail))
      r2 == [r1 EXCEPT !.i = @ + 1, !.index = @ + 1]
  IN IF ok THEN [r1 EXCEPT !.pc = "kavaSleep"]
     ELSE IF r2.index < Len(r2.kavaSwapIDs)
            THEN [r2 EXCEPT !.pc = "refundSwap"]
            ELSE refundBinanceChainSwaps(r2)

\* mutant: no try/catch around refundSwap, a throw ends the invocation
AfterKavaRefundUncaught(r, ok) ==
  [Log(r, Ev("refundSwap", "A", 0, 0, r.kavaSwapIDs[r.index + 1],
             KavaSequence(r), IF ok THEN 200 ELSE Fail))
     EXCEPT !.pc = IF ok THEN "kavaSleep" ELSE "rejected"]

\* the callback of the refund loop after refundSwap returned (ok) or threw and
\* the catch logged it: sleep(25000) is started either way
AfterKavaRefund(r, ok) ==
  [Log(r, Ev("refundSwap", "A", 0, 0, r.kavaSwapIDs[r.index + 1],
             KavaSequence(r), IF ok THEN 200 ELSE Fail))
     EXCEPT !.pc = "kavaSleep"]

\* mutant: the pacing delay after a chain B submission never resolves
AfterBnbRefundHung(r, res) ==
  [Log(r, Ev("refundHTLT", "B", 0, 0, r.bnbSwapIDs[r.index + 1], <<>>, res))
     EXCEPT !.pc = "hung"]

\* the callback of the refund loop after refundHTLT returned a response with
\* status res or threw (res = Fail) and the catch logged it: sleep(5000) is started
AfterBnbRefund(r, res) ==
  [Log(r, Ev("refundHTLT", "B", 0, 0, r.bnbSwapIDs[r.index + 1], <<>>, res))
     EXCEPT !.pc = "bnbSleep"]

\* the callback after sleep(25000): i++, and asyncForEach goes to the next swap ID
\* or refundKavaSwaps returns and refundSwaps goes on with chain B
AfterKavaSleep(r) ==
  LET r1 == [Log(r, Ev("sleep", "A", 0, 0, 0, <<>>, 25000))
               EXCEPT !.i = @ + 1, !.index = @ + 1]
  IN IF r1.index < Len(r1.kavaSwapIDs)
       THEN [r1 EXCEPT !.pc = "refundSwap"]
       ELSE refundBinanceChainSwaps(r1)

\* mutant: a failed refundHTLT is submitted again after the pacing delay
AfterBnbSleepRetry(r) ==
  LET r1 == Log(r, Ev("sleep", "B", 0, 0, 0, <<>>, 5000))
      r2 == IF r.trace[Len(r.trace)].res = 200 THEN [r1 EXCEPT !.index = @ + 1] ELSE r1
  IN [r2 EXCEPT !.pc = IF r2.index < Len(r2.bnbSwapIDs) THEN "refundHTLT" ELSE "done"]

\* the callback after sleep(5000): asyncForEach goes to the next swap ID or
\* refundBinanceChainSwaps and refundSwaps return
AfterBnbSleep(r) ==
  LET r1 == [Log(r, Ev("sleep", "B", 0, 0, 0, <<>>, 5000)) EXCEPT !.index = @ + 1]
  IN [r1 EXCEPT !.pc = IF r1.index < Len(r1.bnbSwapIDs) THEN "refundHTLT" ELSE "done"]

\* mutant: the scan works on the fields of the bot instead of local copies
BotAfterBatchStored(b, r) ==
  [b EXCEPT !.offsetIncoming = r.offsetIncoming, !.offsetOutgoing = r.offsetOutgoing]

\* this.offsetIncoming / this.offsetOutgoing after a batch was handled: the scan
\* works on local copies and never assigns the fields of the bot
BotAfterBatch(b, r) == b

\* ------------------------------------------------------------------ actions
RECURSIVE Sum(_, _)
Sum(f, n) == IF n = 0 THEN 0 ELSE f[n] + Sum(f, n - 1)

\* the number of swaps the two chains list
Load == kavaCount + 2 * Sum(bnbCount, Len(DeputyAddresses))

\* cron.schedule(cronTimer, () => { refundBot.refundSwaps(); }): the timer fires
\* whether or not an earlier invocation is still running, and the callback starts
\* refundSwaps, which runs up to its first await (the first getSwaps request).
\* The last conjunct is a bound of the exploration, not a condition of the code:
\* a second firing is explored only while the listings hold at most MaxRepeatLoad swaps
CronFire(c) ==
  /\ IsBot(bot)
  /\ inv[c].pc = "idle"
  /\ \A d \in Cycles : d < c => inv[d].pc # "idle"
  /\ c > 1 => Load <= MaxRepeatLoad
  /\ inv' = [inv EXCEPT ![c] = [@ EXCEPT !.pc = "getSwaps", !.offset = 0,
                                         !.expiredSwaps = <<>>]]
  /\ UNCHANGED <<bot, kavaCount, bnbCount>>

\* kavaClient.getSwaps returns a page or throws
KavaGetSwapsReturn(c) ==
  /\ inv[c].pc = "getSwaps"
  /\ \E ok \in BOOLEAN, deriveOk \in BOOLEAN :
       LET r == inv[c]
           swapBatch == getSwaps(r.offset, bot.limit)
       IN /\ ~ok => CanFail(r) /\ deriveOk
          /\ ~deriveOk => /\ CanFail(r)
                          /\ Len(swapBatch) = 0
                          /\ Len(r.expiredSwaps) > 0
          /\ inv' = [inv EXCEPT ![c] =
               IF ok
                 THEN KavaBatch(
                        Log(r, Ev("getSwaps", "A", 0, r.offset, 0, <<>>, Len(swapBatch))),
                        swapBatch, deriveOk)
                 ELSE KavaScanFailed(
                        Log(r, Ev("getSwaps", "A", 0, r.offset, 0, <<>>, Fail)))]
  /\ UNCHANGED <<bot, kavaCount, bnbCount>>

\* Kava.tx.loadMetaData returns the account data or throws
KavaLoadMetaDataReturn(c) ==
  /\ inv[c].pc = "loadMetaData"
  /\ \E ok \in BOOLEAN, sequence \in AccountSequences :
       LET r == inv[c]
       IN /\ ~ok => CanFail(r) /\ sequence = <<9>>
          /\ inv' = [inv EXCEPT ![c] =
               IF ok
                 THEN StartKavaRefunds(
                        [Log(r, Ev("loadMetaData", "A", 0, 0, 0, sequence, 0))
                           EXCEPT !.accountData = sequence])
                 ELSE MetaDataFailed(
                        Log(r, Ev("loadMetaData", "A", 0, 0, 0, <<>>, Fail)))]
  /\ UNCHANGED <<bot, kavaCount, bnbCount>>

\* kavaClient.refundSwap returns a tx hash or throws; then sleep(25000) starts
KavaRefundReturn(c) ==
  /\ inv[c].pc = "refundSwap"
  /\ \E ok \in BOOLEAN :
       LET r == inv[c]
       IN /\ ~ok => CanFail(r)
          /\ inv' = [inv EXCEPT ![c] = AfterKavaRefund(r, ok)]
  /\ UNCHANGED <<bot, kavaCount, bnbCount>>

\* sleep(25000) is over: i++, and asyncForEach goes to the next swap ID
KavaSleepReturn(c) ==
  /\ inv[c].pc = "kavaSleep"
  /\ inv' = [inv EXCEPT ![c] = AfterKavaSleep(inv[c])]
  /\ UNCHANGED <<bot, kavaCount, bnbCount>>

\* the node-info request returns the chain height or throws (not caught)
BnbNodeInfoReturn(c) ==
  /\ inv[c].pc = "nodeInfo"
  /\ \E ok \in BOOLEAN :
       LET r == inv[c]
       IN /\ ~ok => CanFail(r)
          /\ inv' = [inv EXCEPT ![c] =
               IF ok
                 THEN NextDeputy(
                        [Log(r, Ev("nodeInfo", Dir(r.incoming), 0, 0, 0, <<>>, LatestBlockHeight))
                           EXCEPT !.latestBnbBlockHeight = LatestBlockHeight])
                 ELSE [Log(r, Ev("nodeInfo", Dir(r.incoming), 0, 0, 0, <<>>, Fail))
                         EXCEPT !.pc = "rejected"]]
  /\ UNCHANGED <<bot, kavaCount, bnbCount>>

\* getSwapByCreator / getSwapByRecipient returns a page or throws
BnbGetSwapsReturn(c) ==
  /\ inv[c].pc = "getSwapBy"
  /\ \E ok \in BOOLEAN :
       LET r == inv[c]
           swapBatch == getSwapBy(bot.deputyAddresses[r.deputy], r.incoming,
                                  bot.limit, BnbOffset(r))
       IN /\ ~ok => CanFail(r)
          /\ inv' = [inv EXCEPT ![c] =
               IF ok
                 THEN BnbBatch(
                        Log(r, Ev("getSwapBy", Dir(r.incoming), r.deputy, BnbOffset(r),
                                  0, <<>>, Len(swapBatch))),
                        swapBatch)
                 ELSE NextDeputy(
                        Log(r, Ev("getSwapBy", Dir(r.incoming), r.deputy, BnbOffset(r),
                                  0, <<>>, Fail)))]
  /\ bot' = BotAfterBatch(bot, inv'[c])
  /\ UNCHANGED <<kavaCount, bnbCount>>

\* bnbClient.swap.refundHTLT returns a response or throws; then sleep(5000) starts
BnbRefundReturn(c) ==
  /\ inv[c].pc = "refundHTLT"
  /\ \E res \in {200, 500, Fail} :
       LET r == inv[c]
       IN /\ res # 200 => CanFail(r)
          /\ inv' = [inv EXCEPT ![c] = AfterBnbRefund(r, res)]
  /\ UNCHANGED <<bot, kavaCount, bnbCount>>

\* sleep(5000) is over: asyncForEach goes to the next swap ID
BnbSleepReturn(c) ==
  /\ inv[c].pc = "bnbSleep"
  /\ inv' = [inv EXCEPT ![c] = AfterBnbSleep(inv[c])]
  /\ UNCHANGED <<bot, kavaCount, bnbCount>>

Next ==
  \E c \in Cycles :
    \/ CronFire(c)
    \/ KavaGetSwapsReturn(c)
    \/ KavaLoadMetaDataReturn(c)
    \/ KavaRefundReturn(c)
    \/ KavaSleepReturn(c)
    \/ BnbNodeInfoReturn(c)
    \/ BnbGetSwapsReturn(c)
    \/ BnbRefundReturn(c)
    \/ BnbSleepReturn(c)

Spec == Init /\ [][Next]_vars

\* ------------------------------------------------------- reading the traces
Events(r, op) == SelectSeq(r.trace, LAMBDA e : e.op = op)

IdsOf(events) == [k \in 1..Len(events) |-> events[k].id]

LastEvent(r) == r.trace[Len(r.trace)]

\* the invocation's chain A pass has ended: refundKavaSwaps returned or threw
KavaPassOver(r) ==
  r.pc \notin {"idle", "getSwaps", "loadMetaData", "refundSwap", "kavaSleep"}

\* the invocation has ended: refundSwaps returned ("done") or threw ("rejected")
Settled(r) == r.pc \in {"done", "rejected"}

\* loadMetaData returned the account data in this invocation
MetaDataLoaded(r) ==
  \E k \in DOMAIN r.trace : r.trace[k].op = "loadMetaData" /\ r.trace[k].res # Fail

\* a failed submission at position k is followed by a submission of every later
\* swap ID of the plan
LaterSubmitted(submits, plan) ==
  \A k \in DOMAIN submits :
    IsFailure(submits[k]) =>
      /\ Len(submits) = Len(plan)
      /\ \A m \in DOMAIN plan : m > k => submits[m].id = plan[m]

\* C1: partial-failure isolation: once a pass is over, a failed submission at
\* position k of its plan was followed by a submission of every swap at a later
\* position, on chain A (refundKavaSwaps) and on chain B (refundBinanceChainSwaps)
C1_PartialFailureIsolation ==
  \A c \in Cycles :
    LET r == inv[c]
    IN /\ KavaPassOver(r) => LaterSubmitted(Events(r, "refundSwap"), r.kavaSwapIDs)
       /\ Settled(r) => LaterSubmitted(Events(r, "refundHTLT"), r.bnbSwapIDs)

\* a finished invocation whose first chain A submission failed, with later ones
C1_Witness ==
  \E c \in Cycles :
    LET r == inv[c]
        submits == Events(r, "refundSwap")
    IN /\ r.pc = "done"
       /\ Len(r.kavaSwapIDs) >= 3
       /\ Len(submits) = Len(r.kavaSwapIDs)
       /\ IsFailure(submits[1])

\* C2 as stated: once a chain's pass is over, one submission was attempted per swap
\* ID its scan returned, in order, whatever call failed
C2_OneAttemptPerDiscoveredID ==
  \A c \in Cycles :
    LET r == inv[c]
    IN /\ KavaPassOver(r) => IdsOf(Events(r, "refundSwap")) = r.kavaSwapIDs
       /\ Settled(r) => IdsOf(Events(r, "refundHTLT")) = r.bnbSwapIDs

\* C2 amended: one submission is attempted per swap ID of the plan, in order,
\* whatever number of attempts fail, once the pass has reached its refund loop:
\* on chain A when the account data was loaded (none at all when that failed),
\* on chain B when both direction scans returned
C2_OneAttemptPerPlannedID ==
  \A c \in Cycles :
    LET r == inv[c]
        submitsA == Events(r, "refundSwap")
    IN /\ KavaPassOver(r) /\ MetaDataLoaded(r) => IdsOf(submitsA) = r.kavaSwapIDs
       /\ KavaPassOver(r) /\ ~MetaDataLoaded(r) => submitsA = <<>>
       /\ Settled(r) => IdsOf(Events(r, "refundHTLT")) = r.bnbSwapIDs

\* a finished invocation that attempted two chain B submissions, one of them failing
C2_Witness ==
  \E c \in Cycles :
    LET r == inv[c]
        submits == Events(r, "refundHTLT")
    IN /\ r.pc = "done"
       /\ Len(submits) >= 2
       /\ \E k \in DOMAIN submits : IsFailure(submits[k])

\* positions of the trace holding an event of the kind
Positions(r, op) == {k \in DOMAIN r.trace : r.trace[k].op = op}

\* C3: in refundKavaSwaps the account sequence is fetched once, after the last page
\* request and before the first submission, and the i-th submission (from 0) is sent
\* with sequence = baseSequence + i whether earlier submissions succeeded or failed
C3_SequenceIsBasePlusIndex ==
  \A c \in Cycles :
    LET r == inv[c]
        loads == Positions(r, "loadMetaData")
        submits == Events(r, "refundSwap")
    IN /\ Cardinality(loads) <= 1
       /\ \A l \in loads :
            /\ \A p \in Positions(r, "getSwaps") : p < l
            /\ \A p \in Positions(r, "refundSwap") : l < p
       /\ submits # <<>> =>
            \E l \in loads :
              /\ r.trace[l].res # Fail
              /\ \A k \in DOMAIN submits :
                   submits[k].seq = String(Number(r.trace[l].seq) + (k - 1))

\* three chain A submissions from base sequence 9, the first one failing
C3_Witness ==
  \E c \in Cycles :
    LET submits == Events(inv[c], "refundSwap")
    IN /\ Len(submits) = 3
       /\ IsFailure(submits[1])
       /\ submits[1].seq = <<9>>
       /\ submits[3].seq = <<1, 1>>

\* ------------------------------------------------------------- the scheduler
\* the invocation is between its start and its end
Running(r) == ~(r.pc = "idle" \/ Settled(r))

\* C4: mutual exclusion of cycles: an invocation started by the scheduler while an
\* earlier one has not finished is skipped or queued, so at most one refundSwaps
\* invocation is scanning or submitting at any moment
C4_MutualExclusion ==
  Cardinality({c \in Cycles : Running(inv[c])}) <= 1

\* C5: chain independence: every invocation that has ended ran chain B's pass, that
\* is at least chain B's first request (node-info of the incoming scan) was made,
\* also when chain A's pass failed at a step or threw
C5_ChainBPassAlwaysRuns ==
  \A c \in Cycles :
    Settled(inv[c]) => Events(inv[c], "nodeInfo") # <<>>

\* C6: refundSwaps never ends with an uncaught exception because a chain A page
\* query, the chain B node-info request, a chain B page query or a refund submission
\* failed
C6_NoUncaughtQueryFailure ==
  \A c \in Cycles :
    inv[c].pc = "rejected" =>
      LastEvent(inv[c]).op \notin {"getSwaps", "nodeInfo", "getSwapBy",
                                   "refundSwap", "refundHTLT"}

\* ------------------------------------------------------------ the page scans
IsPage(e) == e.op \in {"getSwaps", "getSwapBy"}

\* the page requests of an invocation, in the order they were made
Pages(r) == SelectSeq(r.trace, IsPage)

\* two page requests of the same scan: same chain, direction and deputy
SameScan(e, f) == e.op = f.op /\ e.dir = f.dir /\ e.dep = f.dep

\* C7: full-page continuation: a page request is followed by another request of the
\* same scan (chain, direction, deputy) only when it returned exactly limit items;
\* after a short or empty page no further request is made for that scan
C7_FullPageContinuation ==
  \A c \in Cycles :
    LET P == Pages(inv[c])
    IN \A k \in DOMAIN P :
         (k + 1 \in DOMAIN P /\ SameScan(P[k], P[k + 1])) => P[k].res = bot.limit

\* the chain B page requests of one direction
PagesOf(r, dir) == SelectSeq(r.trace, LAMBDA e : e.op = "getSwapBy" /\ e.dir = dir)

\* getRefundableBinanceSwaps has returned for the direction
ScanOver(r, dir) ==
  IF dir = "in" THEN r.pc # "idle" /\ ~r.incoming
  ELSE r.pc \in {"refundHTLT", "bnbSleep", "done"}

\* the scan call of the direction is over and its last page was short or empty
EndedOnShortPage(r, dir) ==
  LET P == PagesOf(r, dir)
  IN /\ ScanOver(r, dir)
     /\ P # <<>>
     /\ P[Len(P)].res >= 0
     /\ P[Len(P)].res < bot.limit

\* C8: reset invariant: after a chain B scan call that ended on a page shorter than
\* limit, the offsets stored in the bot for both directions are what they were before
\* the call (the values they were constructed with), and the first page request of
\* a direction uses the same offset in every cycle
C8_StoredOffsetsReset ==
  \A c \in Cycles : \A dir \in {"in", "out"} :
    EndedOnShortPage(inv[c], dir) =>
      /\ bot.offsetIncoming = DefaultOffset
      /\ bot.offsetOutgoing = DefaultOffset
      /\ \A d \in Cycles :
           PagesOf(inv[d], dir) # <<>> =>
             PagesOf(inv[d], dir)[1].off = PagesOf(inv[c], dir)[1].off

\* two finished cycles; the first one's incoming scan moved its working offset
\* past a page and ended on an empty page
C8_Witness ==
  /\ inv[1].pc = "done"
  /\ inv[2].pc = "done"
  /\ EndedOnShortPage(inv[1], "in")
  /\ EndedOnShortPage(inv[2], "out")
  /\ \E k \in DOMAIN PagesOf(inv[1], "in") : PagesOf(inv[1], "in")[k].off > 0

\* C9: a page request at offset o that returned exactly limit items is followed by
\* a request of the same scan at offset o + limit (already answered, or pending)
C9_FullPageAdvancesByLimit ==
  \A c \in Cycles :
    LET r == inv[c]
        P == Pages(r)
    IN \A k \in DOMAIN P :
         P[k].res = bot.limit =>
           IF k < Len(P)
             THEN SameScan(P[k], P[k + 1]) /\ P[k + 1].off = P[k].off + bot.limit
             ELSE IF P[k].op = "getSwaps"
                    THEN r.pc = "getSwaps" /\ r.offset = P[k].off + bot.limit
                    ELSE /\ r.pc = "getSwapBy"
                         /\ r.deputy = P[k].dep
                         /\ Dir(r.incoming) = P[k].dir
                         /\ BnbOffset(r) = P[k].off + bot.limit

\* a finished invocation with full pages on both chains
C9_Witness ==
  \E c \in Cycles :
    LET P == Pages(inv[c])
    IN /\ Settled(inv[c])
       /\ \E k \in DOMAIN P : P[k].op = "getSwaps" /\ P[k].res = bot.limit /\ P[k].off > 0
       /\ \E k \in DOMAIN P : P[k].op = "getSwapBy" /\ P[k].res = bot.limit

\* the swap IDs of the records of the Kava listing, in listing order
ListedKavaIDs ==
  [k \in 1..kavaCount |->
     calculateSwapID(KavaRecord(k).random_number_hash, KavaRecord(k).sender,
                     KavaRecord(k).sender_other_chain)]

\* getRefundableKavaSwaps has returned and every page request of it was answered
KavaScanAnswered(r) ==
  /\ r.pc \notin {"idle", "getSwaps"}
  /\ \A k \in DOMAIN r.trace :
       ~(r.trace[k].op \in {"getSwaps", "calculateSwapID"} /\ r.trace[k].res = Fail)

\* C10: scan completeness on chain A: with a listing of n records that does not
\* change and an endpoint that answers every page request by offset and limit,
\* getRefundableKavaSwaps returns the n swap IDs of the records, in listing order,
\* none missing and none twice; with the account data loaded, n submissions are
\* then attempted, one per ID
C10_KavaScanComplete ==
  \A c \in Cycles :
    LET r == inv[c]
    IN /\ KavaScanAnswered(r) =>
            /\ r.kavaSwapIDs = ListedKavaIDs
            /\ Cardinality({r.kavaSwapIDs[k] : k \in DOMAIN r.kavaSwapIDs}) = kavaCount
       /\ KavaScanAnswered(r) /\ MetaDataLoaded(r) /\ KavaPassOver(r) =>
            IdsOf(Events(r, "refundSwap")) = ListedKavaIDs

\* two full pages and a short one (the 100, 100, 30 scenario at page size Limit),
\* then one submission per record
C10_Witness ==
  \E c \in Cycles :
    LET r == inv[c]
        P == Events(r, "getSwaps")
    IN /\ KavaPassOver(r)
       /\ kavaCount = 2 * bot.limit + 1
       /\ Len(P) = 4
       /\ P[1].res = bot.limit /\ P[2].res = bot.limit /\ P[3].res = 1 /\ P[4].res = 0
       /\ Len(Events(r, "refundSwap")) = kavaCount

\* ------------------------------------------------ the chain B refundable filter
\* the records of the answered page requests P of a direction, in page order
RECURSIVE FetchedRecords(_, _)
FetchedRecords(P, incoming) ==
  IF P = <<>> THEN <<>>
  ELSE LET e == Head(P)
           n == IF e.res = Fail THEN 0 ELSE e.res
       IN [k \in 1..n |-> BnbRecord(e.dep, incoming, e.off + k)]
            \o FetchedRecords(Tail(P), incoming)

\* the swap IDs getRefundableBinanceSwaps returned for the direction
ReturnedBnbIDs(r, dir) ==
  IF dir = "in" THEN r.incomingSwaps
  ELSE SubSeq(r.bnbSwapIDs, Len(r.incomingSwaps) + 1, Len(r.bnbSwapIDs))

\* the node-info requests of one direction's scan
HeightReads(r, dir) == SelectSeq(r.trace, LAMBDA e : e.op = "nodeInfo" /\ e.dir = dir)

\* C11: chain B refundable filter: the height is read once, before the first page
\* request of the direction, and the IDs getRefundableBinanceSwaps returns are
\* exactly the swapIds of the records of the fetched pages with status Open (1) and
\* expireHeight <= that height, in page order
C11_RefundableFilter ==
  \A c \in Cycles : \A dir \in {"in", "out"} :
    LET r == inv[c]
        H == HeightReads(r, dir)
        F == FetchedRecords(PagesOf(r, dir), dir = "in")
        open == SelectSeq(F, LAMBDA s : s.status = 1 /\ s.expireHeight <= H[1].res)
    IN /\ PagesOf(r, dir) # <<>> => Len(H) = 1 /\ H[1].res # Fail
       /\ ScanOver(r, dir) =>
            /\ Len(H) = 1
            /\ ReturnedBnbIDs(r, dir) = [k \in 1..Len(open) |-> open[k].swapId]

\* a finished cycle whose chain B pages held an Open record expiring exactly at the
\* height read (returned), an Open record expiring later and a record that is not
\* Open (both left out)
C11_Witness ==
  \E c \in Cycles :
    LET r == inv[c]
        F(dir) == FetchedRecords(PagesOf(r, dir), dir = "in")
        Returned(s, dir) ==
          \E k \in DOMAIN ReturnedBnbIDs(r, dir) : ReturnedBnbIDs(r, dir)[k] = s.swapId
        Dirs == {"in", "out"}
    IN /\ r.pc = "done"
       /\ \E dir \in Dirs : \E k \in DOMAIN F(dir) :
            /\ F(dir)[k].status = 1
            /\ F(dir)[k].expireHeight = r.latestBnbBlockHeight
            /\ Returned(F(dir)[k], dir)
       /\ \E dir \in Dirs : \E k \in DOMAIN F(dir) :
            /\ F(dir)[k].status = 1
            /\ F(dir)[k].expireHeight > r.latestBnbBlockHeight
            /\ ~Returned(F(dir)[k], dir)
       /\ \E dir \in Dirs : \E k \in DOMAIN F(dir) :
            F(dir)[k].status # 1 /\ ~Returned(F(dir)[k], dir)

\* C12: when a chain B page request of a direction fails, the scan of that direction
\* stops at once: no further page request is made for the direction in the cycle, for
\* the current or any remaining deputy, and the scan returns the empty sequence
\* (swaps collected from earlier pages or deputies are not returned)
C12_FailedPageEndsDirection ==
  \A c \in Cycles : \A dir \in {"in", "out"} :
    LET r == inv[c]
        P == PagesOf(r, dir)
    IN \A k \in DOMAIN P :
         P[k].res = Fail =>
           /\ k = Len(P)
           /\ ScanOver(r, dir) => ReturnedBnbIDs(r, dir) = <<>>

\* C13: when a chain A page request fails, on the first page or a later one,
\* getRefundableKavaSwaps makes no further page request and returns the empty
\* sequence, and no chain A refund is submitted in the cycle
C13_KavaScanFailureReturnsEmpty ==
  \A c \in Cycles :
    LET r == inv[c]
        P == Events(r, "getSwaps")
    IN \A k \in DOMAIN P :
         P[k].res = Fail =>
           /\ k = Len(P)
           /\ r.pc # "getSwaps"
           /\ r.kavaSwapIDs = <<>>
           /\ Events(r, "refundSwap") = <<>>
           /\ r.pc # "refundSwap"

\* a cycle whose second chain A page request failed after a first page with swaps,
\* and that has gone on past chain A's pass
C13_Witness ==
  \E c \in Cycles :
    LET r == inv[c]
        P == Events(r, "getSwaps")
    IN /\ Len(P) = 2
       /\ P[1].res > 0
       /\ P[2].res = Fail
       /\ r.expiredSwaps # <<>>
       /\ MetaDataLoaded(r)
       /\ Settled(r)

\* ------------------------------------------------------------ scan idempotence
IsScanCall(e) == e.op \in {"getSwaps", "calculateSwapID", "nodeInfo", "getSwapBy"}

\* the calls made by the scans of an invocation, in order
ScanCalls(r) == SelectSeq(r.trace, IsScanCall)

\* what a scan call asked for, without its result
Request(e) == [op |-> e.op, dir |-> e.dir, dep |-> e.dep, off |-> e.off]

\* the scan calls of an invocation that failed, by what they asked for (a scan
\* makes no request twice)
FailedScanCalls(r) ==
  LET F == SelectSeq(r.trace, LAMBDA e : IsScanCall(e) /\ e.res = Fail)
  IN {Request(F[k]) : k \in DOMAIN F}

\* C14: scan idempotence: the listings and the chain B height do not change, so two
\* cycles whose scan calls meet the same outcomes (the same calls fail, all others
\* are answered from the same chain state) make the same sequence of page requests
\* and discover the same sequences of swap IDs; nothing kept by the bot between
\* cycles makes the second one miss or duplicate a swap
C14_ScanIdempotence ==
  \A c, d \in Cycles :
    LET r == inv[c]
        q == inv[d]
        R == ScanCalls(r)
        Q == ScanCalls(q)
    IN (c < d /\ Settled(r) /\ Settled(q) /\ FailedScanCalls(r) = FailedScanCalls(q)) =>
         /\ Len(R) = Len(Q)
         /\ \A k \in DOMAIN R : Request(R[k]) = Request(Q[k])
         /\ r.kavaSwapIDs = q.kavaSwapIDs
         /\ r.incomingSwaps = q.incomingSwaps
         /\ r.bnbSwapIDs = q.bnbSwapIDs

\* two finished cycles, none of whose scan calls failed, that each paged through a
\* non-empty chain B listing and discovered a refundable swap there
C14_Witness ==
  /\ inv[1].pc = "done"
  /\ inv[2].pc = "done"
  /\ FailedScanCalls(inv[1]) = {}
  /\ FailedScanCalls(inv[2]) = {}
  /\ inv[1].bnbSwapIDs # <<>>
  /\ inv[2].bnbSwapIDs = inv[1].bnbSwapIDs
  /\ \E k \in DOMAIN Pages(inv[2]) : Pages(inv[2])[k].off > 0

\* ------------------------------------------------- chain B submission logging
\* the console lines of one callback of the chain B refund loop
BnbRefundLog(swapID, res) ==
  <<[kind |-> "refunding", id |-> swapID]>>
    \o (IF res = Fail THEN <<[kind |-> "error", id |-> swapID]>>
        ELSE IF res = 200 THEN <<[kind |-> "txhash", id |-> swapID]>>
        ELSE <<>>)

\* the console lines of the chain B refund loop so far
RECURSIVE BnbConsole(_)
BnbConsole(submits) ==
  IF submits = <<>> THEN <<>>
  ELSE BnbRefundLog(Head(submits).id, Head(submits).res) \o BnbConsole(Tail(submits))

\* the number of console lines of a kind
LogCount(lines, kind) == Cardinality({k \in DOMAIN lines : lines[k].kind = kind})

\* C15: chain B submission outcome logging: every submission answered with status
\* 200 leaves one tx-hash line, every submission answered with another status leaves
\* one failure line for that swap, and the cycle completes normally
C15_EveryOutcomeLogged ==
  \A c \in Cycles :
    LET r == inv[c]
        S == Events(r, "refundHTLT")
        lines == BnbConsole(S)
    IN /\ LogCount(lines, "txhash") = Cardinality({k \in DOMAIN S : S[k].res = 200})
       /\ LogCount(lines, "error") = Cardinality({k \in DOMAIN S : S[k].res # 200})
       /\ S # <<>> => r.pc # "rejected"

\* ------------------------------------------------------------- construction
MaxNewSwaps == 1

\* the argument lists new RefundBot is called with: zero, one or two deputy
\* addresses; limit and offsets left out (start.js), or given
ConstructorArgs ==
  {<<deps>> : deps \in {<<>>, <<1>>, <<1, 2>>}}
    \cup {<<deps, Limit>> : deps \in {<<>>, <<1>>, <<1, 2>>}}
    \cup {<<deps, Limit, Limit, Limit>> : deps \in {<<>>, <<1>>, <<1, 2>>}}

\* main() before `new RefundBot(...)`: refundBot is not assigned yet
InitNew ==
  /\ bot = [unset |-> TRUE]
  /\ kavaCount \in 0..MaxNewSwaps
  /\ bnbCount \in [1..Len(DeputyAddresses) -> 0..MaxNewSwaps]
  /\ inv = [c \in Cycles |-> Idle]

\* var refundBot = new RefundBot(...): the bot, or the Error that ends main()
\* before any timer is scheduled
Construct ==
  /\ "unset" \in DOMAIN bot
  /\ \E args \in ConstructorArgs : bot' = New(args)
  /\ UNCHANGED <<kavaCount, bnbCount, inv>>

NextNew == Construct \/ Next

SpecNew == InitNew /\ [][NextNew]_vars

\* C16: constructing a RefundBot with zero deputy addresses fails with an Error and
\* yields no bot, so that no scan or submission ever runs with an empty deputy
\* list; with at least one address the construction succeeds, with limit 100 and
\* both offsets 0 when they are left out
C16_ConstructionNeedsDeputy ==
  /\ \A args \in ConstructorArgs :
       LET b == New(args)
       IN /\ Len(args[1]) = 0 => ~IsBot(b) /\ "error" \in DOMAIN b
          /\ Len(args[1]) > 0 => IsBot(b) /\ b.deputyAddresses = args[1]
          /\ (Len(args[1]) > 0 /\ Len(args) = 1) =>
               b.limit = 100 /\ b.offsetIncoming = 0 /\ b.offsetOutgoing = 0
  /\ IsBot(bot) => Len(bot.deputyAddresses) > 0
  /\ \A c \in Cycles : inv[c] # Idle => IsBot(bot) /\ Len(bot.deputyAddresses) > 0

\* the constructor was called with an empty list of deputy addresses and threw
C16_Witness ==
  /\ "error" \in DOMAIN bot
  /\ \A c \in Cycles : inv[c] = Idle

\* the starting offset the bot is configured with for the direction
StartingOffset(dir) == IF dir = "in" THEN bot.offsetIncoming ELSE bot.offsetOutgoing

\* C17: in a chain B scan over several deputies, the first page request for every
\* deputy uses the configured starting offset of the direction, whatever happened
\* while the earlier deputies were scanned (pages of any length, a failed request)
C17_EveryDeputyFromStartingOffset ==
  \A c \in Cycles : \A dir \in {"in", "out"} :
    LET P == PagesOf(inv[c], dir)
    IN \A k \in DOMAIN P :
         (k = 1 \/ P[k - 1].dep # P[k].dep) => P[k].off = StartingOffset(dir)

\* C18: if loading the chain A account data fails, refundKavaSwaps submits no chain A
\* refund in the cycle and raises no exception, and the cycle goes on with chain B's
\* pass: the next call of the cycle is the node-info request of the incoming scan
C18_MetaDataFailureSkipsChainA ==
  \A c \in Cycles :
    LET r == inv[c]
    IN \A k \in DOMAIN r.trace :
         (r.trace[k].op = "loadMetaData" /\ r.trace[k].res = Fail) =>
           /\ Events(r, "refundSwap") = <<>>
           /\ r.pc \notin {"refundSwap", "kavaSleep"}
           /\ IF k = Len(r.trace)
                THEN r.pc = "nodeInfo" /\ r.incoming
                ELSE r.trace[k + 1].op = "nodeInfo" /\ r.trace[k + 1].dir = "in"

\* a cycle that found chain A swaps to refund, failed to load the account data and
\* has finished chain B's pass
C18_Witness ==
  \E c \in Cycles :
    LET r == inv[c]
    IN /\ r.pc = "done"
       /\ r.kavaSwapIDs # <<>>
       /\ \E k \in DOMAIN r.trace :
            r.trace[k].op = "loadMetaData" /\ r.trace[k].res = Fail
       /\ Events(r, "getSwapBy") # <<>>

\* ------------------------------------------------------ order within a cycle
\* the stage of a cycle a call belongs to: 1 chain A scan, 2 account data,
\* 3 chain A submissions, 4 chain B incoming scan, 5 chain B outgoing scan,
\* 6 chain B submissions
Stage(op, dir) ==
  CASE op \in {"getSwaps", "calculateSwapID"} -> 1
    [] op = "loadMetaData" -> 2
    [] op = "refundSwap" \/ (op = "sleep" /\ dir = "A") -> 3
    [] op \in {"nodeInfo", "getSwapBy"} /\ dir = "in" -> 4
    [] op \in {"nodeInfo", "getSwapBy"} /\ dir = "out" -> 5
    [] op = "refundHTLT" \/ (op = "sleep" /\ dir = "B") -> 6

\* the calls of an invocation that have been made and have not returned: the code
\* awaits every call, so this is the one call its position stands at, if any
Outstanding(r) ==
  CASE r.pc \in {"getSwaps", "loadMetaData", "refundSwap", "refundHTLT"} ->
         {[op |-> r.pc, dir |-> "A"]}
    [] r.pc = "kavaSleep" -> {[op |-> "sleep", dir |-> "A"]}
    [] r.pc = "bnbSleep" -> {[op |-> "sleep", dir |-> "B"]}
    [] r.pc \in {"nodeInfo", "getSwapBy"} -> {[op |-> r.pc, dir |-> Dir(r.incoming)]}
    [] OTHER -> {}

\* C19: within one cycle the operations are strictly ordered: chain A's page
\* requests, then chain A's submissions, then chain B's incoming scan, then its
\* outgoing scan, then chain B's submissions, with at most one call outstanding; a
\* cycle that completes has run both chain B scans
C19_StrictOrderWithinCycle ==
  \A c \in Cycles :
    LET r == inv[c]
        T == r.trace
    IN /\ \A k \in 1..(Len(T) - 1) :
            Stage(T[k].op, T[k].dir) <= Stage(T[k + 1].op, T[k + 1].dir)
       /\ Cardinality(Outstanding(r)) <= 1
       /\ \A o \in Outstanding(r) :
            T # <<>> => Stage(T[Len(T)].op, T[Len(T)].dir) <= Stage(o.op, o.dir)
       /\ r.pc = "done" =>
            \E j, k \in DOMAIN T :
              /\ j < k
              /\ T[j].op = "nodeInfo" /\ T[j].dir = "in"
              /\ T[k].op = "nodeInfo" /\ T[k].dir = "out"

\* a completed cycle that scanned and submitted on chain A, then scanned both
\* directions and submitted on chain B
C19_Witness ==
  \E c \in Cycles :
    LET r == inv[c]
    IN /\ r.pc = "done"
       /\ Events(r, "refundSwap") # <<>>
       /\ PagesOf(r, "in") # <<>>
       /\ PagesOf(r, "out") # <<>>
       /\ Events(r, "refundHTLT") # <<>>

\* ---------------------------------------------------------- cycle termination
\* the call invocation c is waiting for returns or throws
Returns(c) ==
  \/ KavaGetSwapsReturn(c)
  \/ KavaLoadMetaDataReturn(c)
  \/ KavaRefundReturn(c)
  \/ KavaSleepReturn(c)
  \/ BnbNodeInfoReturn(c)
  \/ BnbGetSwapsReturn(c)
  \/ BnbRefundReturn(c)
  \/ BnbSleepReturn(c)

\* every network call and every pacing delay eventually returns: while some
\* invocation waits for a call, some awaited call eventually returns
FairSpec == Spec /\ WF_vars(\E c \in Cycles : Returns(c))

\* no call of the invocation failed
NoFailure(r) == \A k \in DOMAIN r.trace : ~IsFailure(r.trace[k])

\* every scan of the invocation whose page requests were all answered made its
\* requests up to the first empty page and no further
ScansEndAtFirstEmptyPage(r) ==
  LET P == Pages(r)
  IN /\ \A k \in DOMAIN P :
          (P[k].res = 0 /\ k < Len(P)) => ~SameScan(P[k], P[k + 1])
     /\ Settled(r) =>
          \A k \in DOMAIN P :
            (k = Len(P) \/ ~SameScan(P[k], P[k + 1])) => P[k].res \in {0, Fail}

\* C20: cycle termination: when every network call and pacing delay eventually
\* returns, over finite listings served by offset with at most limit items per
\* page, every started refundSwaps invocation eventually finishes, each of its
\* scans ending at the first empty page; when no call failed it finishes normally
C20_CycleTerminates ==
  /\ [](\A c \in Cycles :
          /\ ScansEndAtFirstEmptyPage(inv[c])
          /\ (Settled(inv[c]) /\ NoFailure(inv[c])) => inv[c].pc = "done")
  /\ <>[](\A c \in Cycles : inv[c].pc = "idle" \/ Settled(inv[c]))

\* a finished cycle without a failed call whose scans paged through listings on
\* both chains and ended on empty pages
C20_Witness ==
  \E c \in Cycles :
    LET r == inv[c]
        P == Pages(r)
    IN /\ r.pc = "done"
       /\ NoFailure(r)
       /\ \E k \in DOMAIN P : P[k].op = "getSwaps" /\ P[k].res = bot.limit
       /\ \E k \in DOMAIN P : P[k].op = "getSwapBy" /\ P[k].res > 0
       /\ P[Len(P)].res = 0

\* ------------------------------------------------------------------- pacing
IsSubmission(e) == e.op \in {"refundSwap", "refundHTLT"}

\* the pacing delay that follows a submission on the chain: sleep(25000) on Kava,
\* sleep(5000) on Binance Chain
PacingOf(e) ==
  IF e.op = "refundSwap" THEN [dir |-> "A", ms |-> 25000, pc |-> "kavaSleep"]
  ELSE [dir |-> "B", ms |-> 5000, pc |-> "bnbSleep"]

\* C21: pacing: on both chains every submission attempt, successful or failed, is
\* followed by one pacing delay of the chain before anything else of the cycle, so
\* two submissions of a cycle are never issued without a completed pacing delay
\* between them
C21_PacingAfterEverySubmission ==
  \A c \in Cycles :
    LET r == inv[c]
        T == r.trace
    IN /\ \A k \in DOMAIN T :
            IsSubmission(T[k]) =>
              IF k = Len(T)
                THEN r.pc = PacingOf(T[k]).pc
                ELSE /\ T[k + 1].op = "sleep"
                     /\ T[k + 1].dir = PacingOf(T[k]).dir
                     /\ T[k + 1].res = PacingOf(T[k]).ms
       /\ \A k \in 1..(Len(T) - 1) : ~(T[k].op = "sleep" /\ T[k + 1].op = "sleep")
       /\ (r.pc \in {"refundSwap", "refundHTLT"} /\ r.index > 0) =>
            T[Len(T)].op = "sleep"

\* a finished cycle with several submissions on each chain, one of them failed,
\* and as many completed pacing delays as submissions
C21_Witness ==
  \E c \in Cycles :
    LET r == inv[c]
        S == SelectSeq(r.trace, IsSubmission)
    IN /\ r.pc = "done"
       /\ Len(Events(r, "refundSwap")) >= 2
       /\ Len(Events(r, "refundHTLT")) >= 2
       /\ \E k \in DOMAIN S : k < Len(S) /\ IsFailure(S[k])
       /\ Len(Events(r, "sleep")) = Len(S)

====
